---- MODULE Spec2Model ----
(***************************************************************************)
(* Model of word-formatter-app: the DocumentFormatter of                   *)
(* src/document_formatter.py (content classifier, style extractor, style   *)
(* selector, style applier).                                               *)
(*                                                                         *)
(* A text is a run-length encoded string: a sequence of runs [ch, n], the  *)
(* character ch repeated n times.  The characters are one representative   *)
(* of every class the classifier's tests tell apart.                       *)
(***************************************************************************)
EXTENDS Integers, Sequences, FiniteSets, TLC

\* ------------------------------------------------------------- characters

Whitespace == {" "}
AsciiUpper == {"A"}                  \* [A-Z]
OtherUpper == {"U+00C9"}             \* an upper-case letter outside [A-Z]
LowerCase  == {"a"}
Digits     == {"1"}                  \* \d
SentenceEnd == {".", "!"}            \* [.!?]
BulletGlyphs == {"U+2022", "-"}      \* [•\-\*]
StraightQuotes == {"\"", "'"}
CurlyQuotes == {"U+201C", "U+2018"}  \* typographic double / single quote
Chars == Whitespace \cup AsciiUpper \cup OtherUpper \cup LowerCase \cup Digits
           \cup SentenceEnd \cup {")"} \cup BulletGlyphs \cup StraightQuotes
           \cup CurlyQuotes

\* ----------------------------------------------------------------- bounds

MaxRuns == 3                         \* runs per classified text
LongRuns == {49, 50}                 \* run lengths around the 50 / 100 limits
LongChars == {"A", "a", "1"}         \* characters that come in long runs

Runs == [ch : Chars, n : {1}] \cup [ch : LongChars, n : LongRuns]

RECURSIVE SeqsUpTo(_, _)
SeqsUpTo(S, k) ==
    IF k = 0 THEN {<<>>}
    ELSE LET shorter == SeqsUpTo(S, k - 1)
         IN  shorter \cup {Append(s, x) : s \in {t \in shorter : Len(t) = k - 1}, x \in S}

Texts == SeqsUpTo(Runs, MaxRuns)

\* --------------------------------------------------- str methods, patterns

\* len(text)
RECURSIVE TextLen(_)
TextLen(t) == IF t = <<>> THEN 0 ELSE Head(t).n + TextLen(Tail(t))

\* str.lstrip(): drop the leading whitespace
RECURSIVE LStrip(_)
LStrip(t) ==
    IF t = <<>> THEN <<>>
    ELSE IF Head(t).ch \in Whitespace THEN LStrip(Tail(t)) ELSE t

\* str.rstrip(): drop the trailing whitespace
RECURSIVE RStrip(_)
RStrip(t) ==
    IF t = <<>> THEN <<>>
    ELSE IF t[Len(t)].ch \in Whitespace THEN RStrip(SubSeq(t, 1, Len(t) - 1)) ELSE t

\* str.strip()
Strip(t) == RStrip(LStrip(t))

\* str.isupper(): at least one cased character and no lower-case one
IsUpper(t) ==
    /\ \E i \in 1..Len(t) : t[i].ch \in AsciiUpper \cup OtherUpper
    /\ \A i \in 1..Len(t) : t[i].ch \notin LowerCase

\* number of leading runs of digits: the match of \d*
RECURSIVE LeadingDigitRuns(_)
LeadingDigitRuns(t) ==
    IF t = <<>> \/ Head(t).ch \notin Digits THEN 0
    ELSE 1 + LeadingDigitRuns(Tail(t))

\* ^\d+[set]
DigitsThen(t, set) ==
    LET k == LeadingDigitRuns(t)
    IN  k >= 1 /\ Len(t) > k /\ t[k + 1].ch \in set

\* HEADING_PATTERN.match: ^\d+\. | ^[A-Z][^.!?]*$
HEADING_PATTERN(t) ==
    \/ DigitsThen(t, {"."})
    \/ /\ t # <<>>
       /\ t[1].ch \in AsciiUpper
       /\ \A i \in 2..Len(t) : t[i].ch \notin SentenceEnd

\* LIST_PATTERN.match: ^[•\-\*] | ^\d+[.).]
LIST_PATTERN(t) ==
    \/ t # <<>> /\ t[1].ch \in BulletGlyphs
    \/ DigitsThen(t, {".", ")"})

CONTENT_TYPES == {"heading", "list_item", "title", "quote", "body"}

\* ----------------------------------------------------- Content Classifier

\* the empty-text guard dropped: text_stripped[0] raises on the empty string
CategorizeNoEmptyGuard(text) ==
    LET text_stripped == Strip(text)
        text_len == TextLen(text_stripped)
    IN  IF text_stripped = <<>> THEN "IndexError"
        ELSE IF IsUpper(text_stripped) /\ text_len < 50 THEN "title"
        ELSE IF text_stripped[1].ch \in StraightQuotes THEN "quote"
        ELSE IF text_len < 100 /\ HEADING_PATTERN(text_stripped) THEN "heading"
        ELSE IF LIST_PATTERN(text_stripped) THEN "list_item"
        ELSE "body"

\* the quote test moved before the title test
CategorizeQuoteFirst(text) ==
    LET text_stripped == Strip(text)
        text_len == TextLen(text_stripped)
    IN  IF text_len = 0 THEN "body"
        ELSE IF text_stripped[1].ch \in StraightQuotes THEN "quote"
        ELSE IF IsUpper(text_stripped) /\ text_len < 50 THEN "title"
        ELSE IF text_len < 100 /\ HEADING_PATTERN(text_stripped) THEN "heading"
        ELSE IF LIST_PATTERN(text_stripped) THEN "list_item"
        ELSE "body"

\* the list test moved before the heading test
CategorizeListFirst(text) ==
    LET text_stripped == Strip(text)
        text_len == TextLen(text_stripped)
    IN  IF text_len = 0 THEN "body"
        ELSE IF IsUpper(text_stripped) /\ text_len < 50 THEN "title"
        ELSE IF text_stripped[1].ch \in StraightQuotes THEN "quote"
        ELSE IF LIST_PATTERN(text_stripped) THEN "list_item"
        ELSE IF text_len < 100 /\ HEADING_PATTERN(text_stripped) THEN "heading"
        ELSE "body"

\* DocumentFormatter._categorize_content_fast
_categorize_content_fast(text) ==
    LET text_stripped == Strip(text)
        text_len == TextLen(text_stripped)
    IN  IF text_len = 0 THEN "body"
        ELSE IF IsUpper(text_stripped) /\ text_len < 50 THEN "title"
        ELSE IF text_stripped[1].ch \in StraightQuotes THEN "quote"
        ELSE IF text_len < 100 /\ HEADING_PATTERN(text_stripped) THEN "heading"
        ELSE IF LIST_PATTERN(text_stripped) THEN "list_item"
        ELSE "body"

\* --------------------------------------------------- the document container

\* style names of the documents; BUILTIN_STYLES are the reserved ones
StyleNames == {"Normal", "Heading 1", "Quote", "Strong"}

BUILTIN_STYLES ==
    {"Normal", "Heading 1", "Heading 2", "Heading 3", "Heading 4",
     "Heading 5", "Heading 6", "Title", "Subtitle", "Header", "Footer"}

\* str.lower() of a style name
Lower(name) ==
    CASE name = "Normal" -> "normal"
      [] name = "Heading 1" -> "heading 1"
      [] name = "Quote" -> "quote"
      [] name = "Strong" -> "strong"
      [] OTHER -> name

\* the attributes _extract_style_data reads, in the order it reads them
FONT_ATTRS == <<"name", "size", "bold", "italic", "underline", "color">>
PARA_ATTRS == <<"alignment", "space_before", "space_after", "line_spacing",
                "first_line_indent", "left_indent", "right_indent">>

Range(seq) == {seq[i] : i \in 1..Len(seq)}

\* attribute values: "None" is unset/inherited, "malformed" is a value the
\* container's setter rejects by raising
NoFont == [a \in Range(FONT_ATTRS) |-> "None"]
NoPara == [a \in Range(PARA_ATTRS) |-> "None"]

\* ------------------------------------------- the classification cache
\* @lru_cache(maxsize=1000) on the method: one cache, held by the function
\* object of the class, whose keys are the pairs (self, text) of every
\* formatter; it is kept here as the keys from least to most recently used

maxsize == 1000

\* one call self._categorize_content_fast(t) through the cache: a hit moves
\* the key to the most recent end, a miss adds it and, in a full cache, drops
\* the least recently used key of whichever formatter
CacheCall(cache, self, t) ==
    LET key == [self |-> self, text |-> t]
        others == SelectSeq(cache, LAMBDA k : k # key)
    IN  IF Len(others) < Len(cache) THEN Append(others, key)
        ELSE IF Len(cache) >= maxsize THEN Append(Tail(cache), key)
        ELSE Append(cache, key)

\* the calls for the texts ts, in order
RECURSIVE CacheCalls(_, _, _)
CacheCalls(cache, self, ts) ==
    IF ts = <<>> THEN cache
    ELSE CacheCalls(CacheCall(cache, self, Head(ts)), self, Tail(ts))

\* the stripped texts of the paragraphs paras that are longer than min
\* characters: the arguments of the classifier calls of a traversal
RECURSIVE ClassifiedTexts(_, _)
ClassifiedTexts(paras, min) ==
    IF paras = <<>> THEN <<>>
    ELSE LET t == Strip(Head(paras).text)
         IN  IF TextLen(t) > min
             THEN <<t>> \o ClassifiedTexts(Tail(paras), min)
             ELSE ClassifiedTexts(Tail(paras), min)

\* ------------------------------------------------------------ Style Extractor

\* the attributes of obj that are set, as a dict in the order of attrs
SetAttrs(obj, attrs) ==
    [a \in {x \in Range(attrs) : obj[x] # "None"} |-> obj[a]]

\* line 696: len(style_data) > 2, the style has font or layout data
HasStyleData(style) ==
    \/ DOMAIN SetAttrs(style.font, FONT_ATTRS) # {}
    \/ style.type = "paragraph" /\ DOMAIN SetAttrs(style.paragraph_format, PARA_ATTRS) # {}

\* DocumentFormatter._extract_style_data, of a style that has data
_extract_style_data(style) ==
    [type |-> IF style.type = "paragraph" THEN "paragraph" ELSE "character",
     name |-> style.name,
     font |-> SetAttrs(style.font, FONT_ATTRS),
     paragraph |-> IF style.type = "paragraph"
                   THEN SetAttrs(style.paragraph_format, PARA_ATTRS)
                   ELSE <<>>,
     primary_content_type |-> "unset"]

\* template_styles = {**paragraph_styles, **character_styles}
ExtractedStyles(doc) ==
    LET IsPara(st) == st.type = "paragraph" /\ HasStyleData(st)
        IsChar(st) == st.type = "character" /\ HasStyleData(st)
        kept == SelectSeq(doc.styles, IsPara) \o SelectSeq(doc.styles, IsChar)
    IN  [i \in 1..Len(kept) |-> _extract_style_data(kept[i])]

\* doc.paragraphs followed by the paragraphs of every table cell
AllParagraphs(doc) == doc.paragraphs \o doc.cell_paragraphs

Names(styles) == {styles[i].name : i \in 1..Len(styles)}

\* index of the entry of a dict (a sequence of records with a name) for name
IndexOf(dict, name) == CHOOSE i \in 1..Len(dict) : dict[i].name = name

\* lines 725-729: one usage sample appended to style_content_map
AddSample(map, style_name, content_type) ==
    IF style_name \in Names(map)
    THEN [map EXCEPT ![IndexOf(map, style_name)].samples = Append(@, content_type)]
    ELSE Append(map, [name |-> style_name, samples |-> <<content_type>>])

\* the length test of line 719 dropped: every non-empty text is sampled
RECURSIVE CollectUsageNoMinLength(_, _, _)
CollectUsageNoMinLength(map, paras, styles) ==
    IF paras = <<>> THEN map
    ELSE LET p == Head(paras)
             t == Strip(p.text)
             next == IF t # <<>> /\ p.style \in Names(styles)
                     THEN AddSample(map, p.style, _categorize_content_fast(t))
                     ELSE map
         IN  CollectUsageNoMinLength(next, Tail(paras), styles)

\* lines 717-729: the samples of the paragraphs paras added to map
RECURSIVE CollectUsage(_, _, _)
CollectUsage(map, paras, styles) ==
    IF paras = <<>> THEN map
    ELSE LET p == Head(paras)
             t == Strip(p.text)
             next == IF t # <<>> /\ TextLen(t) > 2 /\ p.style \in Names(styles)
                     THEN AddSample(map, p.style, _categorize_content_fast(t))
                     ELSE map
         IN  CollectUsage(next, Tail(paras), styles)

Count(list, x) == Cardinality({i \in 1..Len(list) : list[i] = x})

\* among equal counts the last encountered
MostCommonLast(list) ==
    LET best == CHOOSE i \in 1..Len(list) :
                  /\ \A j \in 1..Len(list) : Count(list, list[j]) <= Count(list, list[i])
                  /\ \A j \in (i + 1)..Len(list) :
                       list[j] = list[i] \/ Count(list, list[j]) < Count(list, list[i])
    IN  list[best]

\* Counter(content_list).most_common(1)[0][0]: the highest count, the first
\* encountered among equal counts
MostCommon(list) ==
    LET best == CHOOSE i \in 1..Len(list) :
                  /\ \A j \in 1..Len(list) : Count(list, list[j]) <= Count(list, list[i])
                  /\ \A j \in 1..(i - 1) : Count(list, list[j]) < Count(list, list[i])
    IN  list[best]

\* lines 732-735: the primary content type of every style of map, in order;
\* a style of map that template_styles lacks raises KeyError and ends the loop
RECURSIVE SetPrimaryTypes(_, _, _)
SetPrimaryTypes(styles, map, i) ==
    IF i > Len(map) THEN [styles |-> styles, error |-> "none"]
    ELSE IF map[i].samples = <<>> THEN SetPrimaryTypes(styles, map, i + 1)
    ELSE IF map[i].name \notin Names(styles)
    THEN [styles |-> styles, error |-> "KeyError"]
    ELSE SetPrimaryTypes(
             [styles EXCEPT ![IndexOf(styles, map[i].name)].primary_content_type =
                                MostCommon(map[i].samples)],
             map, i + 1)

\* ------------------------------------------------------------- Style Selector

\* the first style of styles whose primary content type (default body) is ct
FirstOfType(styles, ct) ==
    LET TypeOf(i) == IF styles[i].primary_content_type = "unset"
                     THEN "body" ELSE styles[i].primary_content_type
        hits == {i \in 1..Len(styles) : TypeOf(i) = ct}
    IN  IF hits = {} THEN "None"
        ELSE styles[CHOOSE i \in hits : \A j \in hits : i <= j].name

\* style_name_lower_map.get(pattern): the last style whose lower-cased name
\* is pattern
LowerMapGet(styles, pattern) ==
    LET hits == {i \in 1..Len(styles) : Lower(styles[i].name) = pattern}
    IN  IF hits = {} THEN "None"
        ELSE styles[CHOOSE i \in hits : \A j \in hits : i >= j].name

\* lines 799-802: the first of the patterns that is a key of the lower map
RECURSIVE FirstPattern(_, _)
FirstPattern(styles, patterns) ==
    IF patterns = <<>> THEN "None"
    ELSE IF LowerMapGet(styles, Head(patterns)) # "None"
    THEN LowerMapGet(styles, Head(patterns))
    ELSE FirstPattern(styles, Tail(patterns))

\* a dict as a function: the entries of f whose value is not "None"
Present(f) == [k \in {x \in DOMAIN f : f[x] # "None"} |-> f[k]]

\* the default of the grouping dropped: a style without a primary content
\* type is in no group
PrepareUnsetUngrouped(styles, cache) ==
    LET First(ct) ==
            LET hits == {i \in 1..Len(styles) : styles[i].primary_content_type = ct}
            IN  IF hits = {} THEN "None"
                ELSE styles[CHOOSE i \in hits : \A j \in hits : i <= j].name
        step1 == [ct \in CONTENT_TYPES |->
                    IF First(ct) # "None" THEN First(ct)
                    ELSE IF ct \in DOMAIN cache THEN cache[ct] ELSE "None"]
        step2 == [ct \in CONTENT_TYPES |->
                    IF step1[ct] # "None" THEN step1[ct]
                    ELSE FirstPattern(styles, <<ct, "heading", "title", "normal">>)]
        step3 == [ct \in CONTENT_TYPES |->
                    IF step2[ct] # "None" THEN step2[ct]
                    ELSE IF styles # <<>> THEN styles[1].name ELSE "None"]
    IN  Present(step3)

\* the ultimate fallback dropped
PrepareNoUltimateFallback(styles, cache) ==
    LET step1 == [ct \in CONTENT_TYPES |->
                    IF FirstOfType(styles, ct) # "None" THEN FirstOfType(styles, ct)
                    ELSE IF ct \in DOMAIN cache THEN cache[ct] ELSE "None"]
        step2 == [ct \in CONTENT_TYPES |->
                    IF step1[ct] # "None" THEN step1[ct]
                    ELSE FirstPattern(styles, <<ct, "heading", "title", "normal">>)]
    IN  Present(step2)

\* DocumentFormatter._prepare_style_mapping: the new content_style_cache
_prepare_style_mapping(styles, cache) ==
    LET step1 == [ct \in CONTENT_TYPES |->
                    IF FirstOfType(styles, ct) # "None" THEN FirstOfType(styles, ct)
                    ELSE IF ct \in DOMAIN cache THEN cache[ct] ELSE "None"]
        step2 == [ct \in CONTENT_TYPES |->
                    IF step1[ct] # "None" THEN step1[ct]
                    ELSE FirstPattern(styles, <<ct, "heading", "title", "normal">>)]
        step3 == [ct \in CONTENT_TYPES |->
                    IF step2[ct] # "None" THEN step2[ct]
                    ELSE IF styles # <<>> THEN styles[1].name ELSE "None"]
    IN  Present(step3)

\* -------------------------------------------------------------- Style Applier

HasStyle(styles, name) == name \in Names(styles)

\* lines 833-838 / 846-847: the attributes of data set on obj in the order of
\* attrs; a malformed value raises and ends the loop
RECURSIVE SetEach(_, _, _, _)
SetEach(obj, data, attrs, i) ==
    IF i > Len(attrs) THEN [obj |-> obj, raised |-> FALSE]
    ELSE IF attrs[i] \notin DOMAIN data THEN SetEach(obj, data, attrs, i + 1)
    ELSE IF data[attrs[i]] = "malformed" THEN [obj |-> obj, raised |-> TRUE]
    ELSE SetEach([obj EXCEPT ![attrs[i]] = data[attrs[i]]], data, attrs, i + 1)

\* DocumentFormatter._update_style_fast: the style updated, and whether a
\* setter raised
_update_style_fast(style, style_data) ==
    LET f == IF DOMAIN style_data.font # {}
             THEN SetEach(style.font, style_data.font, FONT_ATTRS, 1)
             ELSE [obj |-> style.font, raised |-> FALSE]
        p == IF DOMAIN style_data.paragraph # {} /\ style.type = "paragraph"
             THEN SetEach(style.paragraph_format, style_data.paragraph, PARA_ATTRS, 1)
             ELSE [obj |-> style.paragraph_format, raised |-> FALSE]
    IN  IF f.raised
        THEN [style |-> [style EXCEPT !.font = f.obj], raised |-> TRUE]
        ELSE [style |-> [style EXCEPT !.font = f.obj, !.paragraph_format = p.obj],
              raised |-> p.raised]

\* doc.styles.add_style(name, type): a fresh style with every attribute unset
NewStyle(name, type) ==
    [name |-> name, type |-> type, font |-> NoFont, paragraph_format |-> NoPara,
     origin |-> "created"]

\* DocumentFormatter._create_style_fast: the registry with the style added and
\* updated (an exception of the update is caught and dropped)
_create_style_fast(styles, style_name, style_data) ==
    Append(styles, _update_style_fast(NewStyle(style_name, style_data.type), style_data).style)

\* the reserved built-ins created like any other missing style
UpdateOrCreateAnyName(styles, existing_styles, style_data) ==
    IF style_data.name \in existing_styles
    THEN [styles EXCEPT ![IndexOf(styles, style_data.name)] =
                            _update_style_fast(@, style_data).style]
    ELSE _create_style_fast(styles, style_data.name, style_data)

\* the lookup in existing_styles dropped: a style is created under the name
\* whether or not the registry has one
UpdateOrCreateNoLookup(styles, existing_styles, style_data) ==
    IF style_data.name \notin BUILTIN_STYLES
    THEN _create_style_fast(styles, style_data.name, style_data)
    ELSE IF style_data.name \in existing_styles
    THEN [styles EXCEPT ![IndexOf(styles, style_data.name)] =
                            _update_style_fast(@, style_data).style]
    ELSE styles

\* lines 816-823: one StyleRecord materialized in the registry styles, of
\* which existing_styles are the names at the start of the batch
UpdateOrCreate(styles, existing_styles, style_data) ==
    IF style_data.name \in existing_styles
    THEN [styles EXCEPT ![IndexOf(styles, style_data.name)] =
                            _update_style_fast(@, style_data).style]
    ELSE IF style_data.name \notin BUILTIN_STYLES
    THEN _create_style_fast(styles, style_data.name, style_data)
    ELSE styles

\* DocumentFormatter._batch_update_styles: the target registry afterwards
RECURSIVE BatchUpdateFrom(_, _, _, _)
BatchUpdateFrom(styles, existing_styles, records, i) ==
    IF i > Len(records) THEN styles
    ELSE BatchUpdateFrom(UpdateOrCreate(styles, existing_styles, records[i]),
                         existing_styles, records, i + 1)

_batch_update_styles(styles, records) ==
    BatchUpdateFrom(styles, Names(styles), records, 1)

\* the KeyError of a missing style not caught
ApplyParagraphKeyErrorEscapes(paragraph, styles, cache) ==
    LET t == Strip(paragraph.text)
        content_type == _categorize_content_fast(t)
    IN  IF t = <<>> \/ content_type \notin DOMAIN cache
        THEN [paragraph |-> paragraph, error |-> "none"]
        ELSE IF ~ HasStyle(styles, cache[content_type])
        THEN [paragraph |-> paragraph, error |-> "KeyError"]
        ELSE IF styles[IndexOf(styles, cache[content_type])].type # "paragraph"
        THEN [paragraph |-> paragraph, error |-> "ValueError"]
        ELSE [paragraph |-> [paragraph EXCEPT !.style = cache[content_type]],
              error |-> "none"]

\* lines 872-884: one paragraph restyled.  styles[best_style] raises KeyError
\* (caught) when the registry lacks the name; the container's paragraph.style
\* setter raises ValueError (not caught) for a style that is not of paragraph
\* kind
ApplyParagraph(paragraph, styles, cache) ==
    LET t == Strip(paragraph.text)
        content_type == _categorize_content_fast(t)
    IN  IF t = <<>> \/ content_type \notin DOMAIN cache
        THEN [paragraph |-> paragraph, error |-> "none"]
        ELSE IF ~ HasStyle(styles, cache[content_type])
        THEN [paragraph |-> paragraph, error |-> "none"]
        ELSE IF styles[IndexOf(styles, cache[content_type])].type # "paragraph"
        THEN [paragraph |-> paragraph, error |-> "ValueError"]
        ELSE [paragraph |-> [paragraph EXCEPT !.style = cache[content_type]],
              error |-> "none"]

\* lines 871-884 over the paragraphs paras from index i on: the paragraphs
\* afterwards, the exception that ended the loop, and how many paragraphs the
\* loop visited
RECURSIVE ApplyFrom(_, _, _, _)
ApplyFrom(paras, styles, cache, i) ==
    IF i > Len(paras) THEN [paragraphs |-> paras, error |-> "none", visited |-> Len(paras)]
    ELSE LET r == ApplyParagraph(paras[i], styles, cache)
         IN  IF r.error # "none"
             THEN [paragraphs |-> paras, error |-> r.error, visited |-> i]
             ELSE ApplyFrom([paras EXCEPT ![i] = r.paragraph], styles, cache, i + 1)

\* DocumentFormatter._batch_apply_paragraph_styles: the document afterwards
_batch_apply_paragraph_styles(doc, cache) ==
    LET all == ApplyFrom(AllParagraphs(doc), doc.styles, cache, 1)
        n == Len(doc.paragraphs)
    IN  [doc |-> [doc EXCEPT !.paragraphs = SubSeq(all.paragraphs, 1, n),
                             !.cell_paragraphs =
                                 SubSeq(all.paragraphs, n + 1, Len(all.paragraphs))],
         error |-> all.error, visited |-> all.visited]

\* ----------------------------------------------------------------- documents

MaxStyles == 3        \* styles of a template document
MaxTplParas == 1      \* paragraphs of a template document
MaxParas == 2         \* paragraphs of a target document

\* the kind each style name has in the documents
KindOf(name) ==
    IF name = "Strong" THEN "character"
    ELSE IF name = "Table Grid" THEN "table"
    ELSE "paragraph"

\* '"Aa' (quote), 'Aa.' (body), '"a' (quote, under 3 characters), ' ' (blank)
TQuote == << [ch |-> "\"", n |-> 1], [ch |-> "A", n |-> 1], [ch |-> "a", n |-> 1] >>
TBody  == << [ch |-> "A", n |-> 1], [ch |-> "a", n |-> 1], [ch |-> ".", n |-> 1] >>
TShort == << [ch |-> "\"", n |-> 1], [ch |-> "a", n |-> 1] >>
TBlank == << [ch |-> " ", n |-> 1] >>

\* font / layout attributes of the template's styles
TplFonts ==
    [none |-> NoFont,
     good |-> [NoFont EXCEPT !["name"] = "tpl", !["size"] = "tpl",
                             !["bold"] = "tpl", !["color"] = "tpl"],
     bad  |-> [NoFont EXCEPT !["name"] = "tpl", !["size"] = "malformed",
                             !["bold"] = "tpl"]]
TplParas ==
    [none |-> NoPara,
     good |-> [NoPara EXCEPT !["alignment"] = "tpl", !["left_indent"] = "tpl"],
     bad  |-> [NoPara EXCEPT !["alignment"] = "tpl"]]

TplStyle(name, bundle) ==
    [name |-> name, type |-> KindOf(name), font |-> TplFonts[bundle],
     paragraph_format |-> IF KindOf(name) = "paragraph" THEN TplParas[bundle] ELSE NoPara,
     origin |-> "template"]

\* a style of the target before the run: every attribute set to "old"
TgtStyle(name) ==
    [name |-> name, type |-> KindOf(name),
     font |-> [a \in Range(FONT_ATTRS) |-> "old"],
     paragraph_format |-> IF KindOf(name) = "paragraph"
                          THEN [a \in Range(PARA_ATTRS) |-> "old"] ELSE NoPara,
     origin |-> "target"]

DistinctNames(styles) ==
    \A i, j \in 1..Len(styles) : styles[i].name = styles[j].name => i = j

\* the style lists of a template: at most MaxStyles styles of distinct names
StyleLists(names, bundles) ==
    {ss \in SeqsUpTo({TplStyle(n, b) : n \in names, b \in bundles}, MaxStyles) :
        DistinctNames(ss)}

Paragraphs(texts, names) == [text : texts, style : names]

\* body paragraphs and table-cell paragraphs, at most max in all
ParaSplits(texts, names, max) ==
    {pc \in SeqsUpTo(Paragraphs(texts, names), max)
             \X SeqsUpTo(Paragraphs(texts, names), max) :
        Len(pc[1]) + Len(pc[2]) <= max}

Document(ss, pc) == [styles |-> ss, paragraphs |-> pc[1], cell_paragraphs |-> pc[2]]

\* no document loaded
NoDocument == [styles |-> <<>>, paragraphs |-> <<>>, cell_paragraphs |-> <<>>]

ParagraphNames(ss) == {n \in Names(ss) : KindOf(n) = "paragraph"}

\* the templates of a formatting run: styles with data, and the paragraphs
\* that use them
Templates ==
    UNION {{Document(ss, pc) : pc \in ParaSplits({TQuote}, ParagraphNames(ss), MaxTplParas)} :
           ss \in StyleLists({"Heading 1", "Quote", "Strong"}, {"good", "bad"})}

\* the style Normal and those of keep, in the order of the registry
TargetStyles(keep) ==
    SelectSeq(<<TgtStyle("Normal"), TgtStyle("Heading 1"), TgtStyle("Quote"),
                TgtStyle("Strong")>>, LAMBDA st : st.name \in keep \cup {"Normal"})

\* the targets of a formatting run: Normal and any of the other styles, body
\* paragraphs in the style Normal, and a table with no or one cell paragraph
Targets ==
    {Document(TargetStyles(keep), <<ps, cs>>) :
        keep \in SUBSET {"Heading 1", "Quote", "Strong"},
        ps \in SeqsUpTo(Paragraphs({TBody, TShort, TBlank}, {"Normal"}), MaxParas),
        cs \in {<<>>, <<[text |-> TShort, style |-> "Normal"]>>}}

\* the templates the selector is run on: styles with and without data, used
\* and unused
SelectTemplates ==
    UNION {{Document(ss, <<ps, <<>> >>) :
               ps \in SeqsUpTo(Paragraphs({TQuote, TBody}, ParagraphNames(ss)),
                               MaxTplParas)} :
           ss \in StyleLists(StyleNames, {"none", "good"})}

SelectTargets ==
    {Document(TargetStyles({}), <<ps, <<>> >>) :
        ps \in {<<>>, <<[text |-> TQuote, style |-> "Normal"]>>}}

\* ------------------------------------------------------------------ state

VARIABLES
    text,       \* the argument of a call of _categorize_content_fast
    result,     \* what the call returned ("pending" before it ran)
    template_styles,      \* DocumentFormatter.template_styles, in dict order
    style_content_map,    \* DocumentFormatter.style_content_map, in dict order
    content_style_cache,  \* DocumentFormatter.content_style_cache
    target_in,  \* the target document as loaded
    target_doc, \* the target document in memory, being restyled
    pc,         \* "start", "extracted", "applied", "raised"
    error,      \* the exception that left the last call ("none" if it returned)
    calls,      \* calls made on the formatter so far
    template_doc,  \* the template document an extraction is run on
    output,     \* the output file: "none", "generated" (path only), "written"
    lru_cache,  \* the cache of _categorize_content_fast, shared by the class
    alive,      \* the formatters constructed and not yet destroyed
    cleanup_registry,  \* app.cleanup_registry, a list of path/cleanup_time
    cleanup_lock,      \* the holder of app.cleanup_lock, or "free"
    now,               \* time.time(), in seconds since the start
    requests,          \* per request thread, where it is in register_for_cleanup
    files,             \* output files created so far; a path is its number
    sweep_pc,          \* where the background thread is
    current_time,      \* the local current_time of cleanup_expired_files
    expired_files,     \* the local expired_files, the items yet to delete
    wake,              \* when the sleep of background_cleanup ends
    registered,        \* history: the entries appended so far
    deleted            \* history: the entries handed to deletion, and when

vars == <<text, result, template_styles, style_content_map, content_style_cache,
          target_in, target_doc, pc, error, calls, template_doc, output,
          lru_cache, alive, cleanup_registry, cleanup_lock, now, requests,
          files, sweep_pc, current_time, expired_files, wake, registered,
          deleted>>

\* the state of app.py
app_vars == <<cleanup_registry, cleanup_lock, now, requests, files, sweep_pc,
              current_time, expired_files, wake, registered, deleted>>

\* the request threads of the server
RequestThreads == {"r1", "r2"}

\* app.py as imported: an empty registry, the lock free, the background
\* thread started
AppStart ==
    /\ cleanup_registry = <<>>
    /\ cleanup_lock = "free"
    /\ now = 0
    /\ requests = [t \in RequestThreads |-> [pc |-> "idle", path |-> 0]]
    /\ files = 0
    /\ sweep_pc = "sleeping"
    /\ current_time = 0
    /\ expired_files = <<>>
    /\ wake = 0
    /\ registered = <<>>
    /\ deleted = <<>>

classifier_vars == <<text, result>>
run_vars == <<template_doc, output, alive>>
formatter_vars == <<template_styles, style_content_map, content_style_cache,
                    target_in, target_doc, pc, error, calls>>

\* DocumentFormatter.__init__
NewFormatter ==
    /\ template_styles = <<>>
    /\ style_content_map = <<>>
    /\ content_style_cache = <<>>
    /\ target_in = NoDocument
    /\ target_doc = NoDocument
    /\ pc = "start"
    /\ error = "none"
    /\ calls = 0

\* one formatter "f1" in a process that has classified nothing yet, no
\* document at hand, no output
OneFormatter ==
    /\ NewFormatter
    /\ template_doc = NoDocument
    /\ output = "none"
    /\ lru_cache = <<>>
    /\ alive = {"f1"}
    /\ AppStart

\* ------------------------------------------- the classifier on every text

ClassifyInit ==
    /\ text \in Texts
    /\ result = "pending"
    /\ OneFormatter

\* one call of _categorize_content_fast(text)
Categorize ==
    /\ result = "pending"
    /\ result' = _categorize_content_fast(text)
    /\ lru_cache' = CacheCall(lru_cache, "f1", text)
    /\ UNCHANGED <<app_vars, text, formatter_vars, run_vars>>

ClassifyNext == Categorize

SpecClassify == ClassifyInit /\ [][ClassifyNext]_vars

\* ------------------------------------------------------ the formatter's calls

\* DocumentFormatter.extract_styles_from_template(template_path), tpl the
\* document at template_path
extract_styles_from_template(tpl) ==
    \E styles \in {ExtractedStyles(tpl)} :
    \E map \in {CollectUsage(style_content_map, AllParagraphs(tpl), styles)} :
    \E r \in {SetPrimaryTypes(styles, map, 1)} :
        /\ template_styles' = r.styles
        /\ style_content_map' = map
        /\ error' = r.error
        /\ pc' = IF r.error = "none" THEN "extracted" ELSE "raised"
        /\ lru_cache' = CacheCalls(lru_cache, "f1", ClassifiedTexts(AllParagraphs(tpl), 2))
        /\ UNCHANGED <<content_style_cache, target_in, target_doc>>

\* DocumentFormatter.apply_styles_to_target(target_path), tgt the document at
\* target_path
apply_styles_to_target(tgt) ==
    \E cache \in {_prepare_style_mapping(template_styles, content_style_cache)} :
    \E updated \in {[tgt EXCEPT !.styles = _batch_update_styles(tgt.styles, template_styles)]} :
    \E r \in {_batch_apply_paragraph_styles(updated, cache)} :
        /\ content_style_cache' = cache
        /\ target_in' = tgt
        /\ target_doc' = r.doc
        /\ error' = r.error
        /\ pc' = IF r.error = "none" THEN "applied" ELSE "raised"
        /\ lru_cache' = CacheCalls(lru_cache, "f1",
               ClassifiedTexts(SubSeq(AllParagraphs(tgt), 1, r.visited), 0))
        /\ UNCHANGED <<template_styles, style_content_map>>

\* ---------------------- apply_formatting on a freshly constructed formatter

Init ==
    /\ text = <<>>
    /\ result = "pending"
    /\ OneFormatter

\* line 892
Extract ==
    /\ pc = "start"
    /\ \E tpl \in Templates : extract_styles_from_template(tpl)
    /\ UNCHANGED <<app_vars, classifier_vars, calls, run_vars>>

\* line 895
Apply ==
    /\ pc = "extracted"
    /\ \E tgt \in Targets : apply_styles_to_target(tgt)
    /\ UNCHANGED <<app_vars, classifier_vars, calls, run_vars>>

Next == Extract \/ Apply

Spec == Init /\ [][Next]_vars

\* --------------------------- the selector on the views of many templates

SelectExtract ==
    /\ pc = "start"
    /\ \E tpl \in SelectTemplates : extract_styles_from_template(tpl)
    /\ UNCHANGED <<app_vars, classifier_vars, calls, run_vars>>

SelectApply ==
    /\ pc = "extracted"
    /\ \E tgt \in SelectTargets : apply_styles_to_target(tgt)
    /\ UNCHANGED <<app_vars, classifier_vars, calls, run_vars>>

SelectNext == SelectExtract \/ SelectApply

SpecSelect == Init /\ [][SelectNext]_vars

\* ------------------------------- one formatter used for call after call

MaxCalls == 4         \* calls made on one formatter

\* templates of at most one style
ReuseTemplates ==
    {tpl \in Templates :
        /\ Len(tpl.styles) <= 1
        /\ \A i \in 1..Len(tpl.styles) : tpl.styles[i].font = TplFonts.good
        /\ tpl.cell_paragraphs = <<>>}

ReuseTargets ==
    {Document(TargetStyles(keep), << <<[text |-> TQuote, style |-> "Normal"]>>, <<>> >>) :
        keep \in {{}, {"Heading 1", "Quote", "Strong"}}}

ReuseExtract ==
    /\ calls < MaxCalls
    /\ calls' = calls + 1
    /\ \E tpl \in ReuseTemplates : extract_styles_from_template(tpl)
    /\ UNCHANGED <<app_vars, classifier_vars, run_vars>>

ReuseApply ==
    /\ calls < MaxCalls
    /\ calls' = calls + 1
    /\ \E tgt \in ReuseTargets : apply_styles_to_target(tgt)
    /\ UNCHANGED <<app_vars, classifier_vars, run_vars>>

ReuseNext == ReuseExtract \/ ReuseApply

SpecReuse == Init /\ [][ReuseNext]_vars

\* ------------------------- one formatter extracting template after template

\* extract_styles_from_template called once more on the formatter, on any
\* template; an exception that leaves the call is the caller's, the
\* formatter stays in use
Reextract ==
    /\ calls < MaxCalls
    /\ calls' = calls + 1
    /\ \E tpl \in ReuseTemplates :
         /\ template_doc' = tpl
         /\ extract_styles_from_template(tpl)
    /\ UNCHANGED <<app_vars, classifier_vars, output, alive>>

SpecReextract == Init /\ [][Reextract]_vars

\* --------------------------- the applier run again on its own output

\* apply_styles_to_target, with the view of the same template, on the
\* document the first run produced
Reapply ==
    /\ pc = "applied"
    /\ calls = 0
    /\ calls' = 1
    /\ apply_styles_to_target(target_doc)
    /\ UNCHANGED <<app_vars, classifier_vars, run_vars>>

TwiceNext == Extract \/ Apply \/ Reapply

SpecTwice == Init /\ [][TwiceNext]_vars

\* ------------------- apply_formatting and convert_to_latex on files that
\* ------------------- may fail to load

\* a file is a document, or no valid container: Document(path) raises
Files(docs) == [valid : {TRUE}, doc : docs] \cup {[valid |-> FALSE, doc |-> NoDocument]}

RunTemplates == {tpl \in Templates : Len(tpl.styles) <= 2}
RunTargets == {tgt \in Targets : Len(tgt.paragraphs) <= 1}

\* Document(path) raised: the error leaves the call, nothing else happened
LoadError ==
    /\ pc' = "raised"
    /\ error' = "LoadError"
    /\ UNCHANGED <<template_styles, style_content_map, content_style_cache,
                   target_in, target_doc, lru_cache>>

\* the output path generated before the target is loaded
RunApplyPathFirst ==
    /\ pc = "extracted"
    /\ output' = "generated"
    /\ \E file \in Files(RunTargets) :
         IF file.valid THEN apply_styles_to_target(file.doc) ELSE LoadError
    /\ UNCHANGED <<app_vars, classifier_vars, calls, template_doc, alive>>

\* line 892: extract_styles_from_template(template_path)
RunExtract ==
    /\ pc = "start"
    /\ \E file \in Files(RunTemplates) :
         IF file.valid THEN extract_styles_from_template(file.doc) ELSE LoadError
    /\ UNCHANGED <<app_vars, classifier_vars, calls, run_vars>>

\* line 895: apply_styles_to_target(target_path)
RunApply ==
    /\ pc = "extracted"
    /\ \E file \in Files(RunTargets) :
         IF file.valid THEN apply_styles_to_target(file.doc) ELSE LoadError
    /\ UNCHANGED <<app_vars, classifier_vars, calls, run_vars>>

\* lines 898-904: the output path generated, the document saved to it
RunSave ==
    /\ pc = "applied"
    /\ pc' = "saved"
    /\ output' = "written"
    /\ UNCHANGED <<app_vars, classifier_vars, template_styles, style_content_map,
                   content_style_cache, target_in, target_doc, error, calls,
                   template_doc, lru_cache, alive>>

\* convert_to_latex(docx_path), LaTeXConverter.convert_document: the source
\* loaded (line 56) and rendered, then the output path generated and the
\* markup written (lines 72-74)
Convert ==
    /\ pc = "start"
    /\ \E file \in Files(RunTargets) :
         IF file.valid
         THEN /\ target_in' = file.doc
              /\ pc' = "converted"
              /\ output' = "written"
              /\ UNCHANGED <<template_styles, style_content_map, content_style_cache,
                             target_doc, error, lru_cache>>
         ELSE LoadError /\ UNCHANGED output
    /\ UNCHANGED <<app_vars, classifier_vars, calls, template_doc, alive>>

RunNext == RunExtract \/ RunApply \/ RunSave \/ Convert

SpecRun == Init /\ [][RunNext]_vars

\* ----------------------------------- the extractor on the templates' usage

MaxSamples == 2       \* body paragraphs of a template under extraction

\* registries of at most two styles, of paragraph, character and table kind,
\* with and without data, and their paragraphs: up to MaxSamples in the body,
\* none or one in a table cell
ExtractTemplates ==
    UNION {{Document(ss, <<ps, cs>>) :
               ps \in SeqsUpTo(Paragraphs({TQuote, TBody, TShort}, ParagraphNames(ss)),
                               MaxSamples),
               cs \in SeqsUpTo(Paragraphs({TQuote, TBody, TBlank}, ParagraphNames(ss)), 1)} :
           ss \in {ss \in StyleLists({"Heading 1", "Quote", "Strong", "Table Grid"},
                                     {"none", "good"}) : Len(ss) <= 2}}

ExtractInit ==
    /\ text = <<>>
    /\ result = "pending"
    /\ NewFormatter
    /\ template_doc \in ExtractTemplates
    /\ output = "none"
    /\ lru_cache = <<>>
    /\ alive = {"f1"}
    /\ AppStart

\* extract_styles_from_template on a fresh formatter
ExtractTemplate ==
    /\ pc = "start"
    /\ extract_styles_from_template(template_doc)
    /\ UNCHANGED <<app_vars, classifier_vars, calls, run_vars>>

ExtractNext == ExtractTemplate

SpecExtract == ExtractInit /\ [][ExtractNext]_vars

\* ------------------------------ two formatters, each on its own documents

Formatters == {"f1", "f2"}

\* the keys of the cache that belong to the formatter f
EntriesOf(f) == SelectSeq(lru_cache, LAMBDA k : k.self = f)

ParInit ==
    /\ text = <<>>
    /\ result = "pending"
    /\ NewFormatter
    /\ template_doc = NoDocument
    /\ output = "none"
    /\ lru_cache = <<>>
    /\ alive = Formatters
    /\ AppStart

\* the run of formatter f classifies the text of one of its paragraphs
\* (lines 722, 874)
ParClassify(f) ==
    /\ f \in alive
    /\ calls < MaxCalls
    /\ calls' = calls + 1
    /\ \E t \in {TQuote, TBody, TShort} : lru_cache' = CacheCall(lru_cache, f, t)
    /\ UNCHANGED <<app_vars, classifier_vars, template_styles, style_content_map,
                   content_style_cache, target_in, target_doc, pc, error,
                   template_doc, output, alive>>

\* DocumentFormatter.__del__ of formatter f: cache_clear() on the cache of
\* the class.  The cache's keys refer to their formatter, so f is destroyed
\* only once no key of the cache is its own.
Destroy(f) ==
    /\ f \in alive
    /\ EntriesOf(f) = <<>>
    /\ alive' = alive \ {f}
    /\ lru_cache' = <<>>
    /\ UNCHANGED <<app_vars, classifier_vars, template_styles, style_content_map,
                   content_style_cache, target_in, target_doc, pc, error, calls,
                   template_doc, output>>

ParNext == \E f \in Formatters : ParClassify(f) \/ Destroy(f)

SpecParallel == ParInit /\ [][ParNext]_vars

\* ============================================ LaTeXConverter: escaping
\* a text of the renderer is a sequence of characters

\* escape_chars, as the dict literal of lines 571-591 evaluates: its keys in
\* insertion order, each with the value of its last occurrence in the literal
escape_chars ==
    <<
       [char |->
            <<
              "\\"
            >>,
        escaped |->
            <<
              "\\", "t", "e", "x", "t", "b", "a", "c", "k", "s", "l", "a",
              "s", "h", "{", "}"
            >>],
       [char |->
            <<
              "{"
            >>,
        escaped |->
            <<
              "\\", "{"
            >>],
       [char |->
            <<
              "}"
            >>,
        escaped |->
            <<
              "\\", "}"
            >>],
       [char |->
            <<
              "$"
            >>,
        escaped |->
            <<
              "\\", "$"
            >>],
       [char |->
            <<
              "&"
            >>,
        escaped |->
            <<
              "\\", "&"
            >>],
       [char |->
            <<
              "%"
            >>,
        escaped |->
            <<
              "\\", "%"
            >>],
       [char |->
            <<
              "#"
            >>,
        escaped |->
            <<
              "\\", "#"
            >>],
       [char |->
            <<
              "^"
            >>,
        escaped |->
            <<
              "\\", "t", "e", "x", "t", "a", "s", "c", "i", "i", "c", "i",
              "r", "c", "u", "m", "{", "}"
            >>],
       [char |->
            <<
              "_"
            >>,
        escaped |->
            <<
              "\\", "_"
            >>],
       [char |->
            <<
              "~"
            >>,
        escaped |->
            <<
              "\\", "t", "e", "x", "t", "a", "s", "c", "i", "i", "t", "i",
              "l", "d", "e", "{", "}"
            >>],
       [char |->
            <<
              "\""
            >>,
        escaped |->
            <<
              "\\", "t", "e", "x", "t", "q", "u", "o", "t", "e", "d", "b",
              "l", "r", "i", "g", "h", "t", "{", "}"
            >>],
       [char |->
            <<
              "`"
            >>,
        escaped |->
            <<
              "\\", "`", "{", "}"
            >>],
       [char |->
            <<
              ":", " ", "r", "'", "\t", "e", "x", "t", "q", "u", "o", "t",
              "e", "l", "e", "f", "t", "{", "}", "'", ",", "\n", " ", " ",
              " ", " ", " ", " ", " ", " ", " ", " ", " ", " "
            >>,
        escaped |->
            <<
              "\\", "t", "e", "x", "t", "q", "u", "o", "t", "e", "r", "i",
              "g", "h", "t", "{", "}"
            >>],
       [char |->
            <<
              "U+2013"
            >>,
        escaped |->
            <<
              "-", "-"
            >>],
       [char |->
            <<
              "U+2014"
            >>,
        escaped |->
            <<
              "-", "-", "-"
            >>],
       [char |->
            <<
              "U+2026"
            >>,
        escaped |->
            <<
              "\\", "l", "d", "o", "t", "s", "{", "}"
            >>]
    >>

\* str.replace(key, escaped): every occurrence of key, left to right
RECURSIVE Replace(_, _, _, _)
Replace(s, key, escaped, i) ==
    IF i > Len(s) THEN <<>>
    ELSE IF i + Len(key) - 1 <= Len(s) /\ SubSeq(s, i, i + Len(key) - 1) = key
    THEN escaped \o Replace(s, key, escaped, i + Len(key))
    ELSE <<s[i]>> \o Replace(s, key, escaped, i + 1)

\* lines 593-594: one replace after the other, each on the result of the
\* one before
RECURSIVE ReplaceEach(_, _, _)
ReplaceEach(s, table, k) ==
    IF k > Len(table) THEN s
    ELSE ReplaceEach(Replace(s, table[k].char, table[k].escaped, 1), table, k + 1)

\* LaTeXConverter._escape_latex_chars
_escape_latex_chars(s) == ReplaceEach(s, escape_chars, 1)

\* the raw texts that are escaped
MaxChars == 3
EscapeTexts == SeqsUpTo({"\\", "{", "%", "&", "^", "_", "\"", "a", " "}, MaxChars)

EscapeInit ==
    /\ text \in EscapeTexts
    /\ result = <<>>
    /\ OneFormatter

\* one call of _escape_latex_chars(text)
Escape ==
    /\ pc = "start"
    /\ pc' = "escaped"
    /\ result' = _escape_latex_chars(text)
    /\ UNCHANGED <<app_vars, text, template_styles, style_content_map, content_style_cache,
                   target_in, target_doc, error, calls, run_vars, lru_cache>>

EscapeNext == Escape

SpecEscape == EscapeInit /\ [][EscapeNext]_vars

\* ================================================ LaTeXConverter: lists
\* the texts of the paragraphs are run-length encoded, as the classifier's

RomanLetters == {"i"}                \* [ivxlcdm], with re.IGNORECASE

\* the keys of style_mappings
style_mappings == {"Title", "Subtitle", "Heading 1", "Heading 2", "Heading 3",
                   "Heading 4", "Heading 5", "Heading 6"}

\* number of leading runs whose character is in set
RECURSIVE LeadingRuns(_, _)
LeadingRuns(t, set) ==
    IF t = <<>> \/ Head(t).ch \notin set THEN 0
    ELSE 1 + LeadingRuns(Tail(t), set)

\* [\.)]\s+ at run k of t
CloserThenSpace(t, k) ==
    /\ Len(t) > k
    /\ t[k].ch \in {".", ")"}
    /\ t[k].n = 1
    /\ t[k + 1].ch \in Whitespace

\* ^[•\-\*]\s+
BulletItem(t) ==
    /\ Len(t) > 1
    /\ t[1].ch \in BulletGlyphs
    /\ t[1].n = 1
    /\ t[2].ch \in Whitespace

\* ^\d+[\.)]\s+
NumberItem(t) ==
    LET k == LeadingRuns(t, Digits)
    IN  k >= 1 /\ CloserThenSpace(t, k + 1)

\* ^[a-zA-Z][\.)]\s+
AlphaItem(t) ==
    /\ t # <<>>
    /\ t[1].ch \in AsciiUpper \cup LowerCase \cup RomanLetters
    /\ t[1].n = 1
    /\ CloserThenSpace(t, 2)

\* ^[ivxlcdm]+[\.)]\s+
RomanItem(t) ==
    LET k == LeadingRuns(t, RomanLetters)
    IN  k >= 1 /\ CloserThenSpace(t, k + 1)

\* LaTeXConverter._is_advanced_list_item
_is_advanced_list_item(t) ==
    BulletItem(Strip(t)) \/ NumberItem(Strip(t)) \/ AlphaItem(Strip(t)) \/ RomanItem(Strip(t))

\* LaTeXConverter._convert_advanced_list_item: the list block emitted,
\* enumerate, enumerate[label=\alph*.], enumerate[label=\roman*.] or itemize
_convert_advanced_list_item(t) ==
    IF NumberItem(Strip(t)) THEN "enumerate"
    ELSE IF AlphaItem(Strip(t)) THEN "alph"
    ELSE IF RomanItem(Strip(t)) THEN "roman"
    ELSE "itemize"

\* LaTeXConverter._convert_paragraph_advanced: the kind of block emitted for
\* a paragraph with text
_convert_paragraph_advanced(paragraph) ==
    IF paragraph.style \in style_mappings THEN "structural"
    ELSE IF _is_advanced_list_item(paragraph.text)
    THEN _convert_advanced_list_item(paragraph.text)
    ELSE "paragraph"

\* LaTeXConverter._process_paragraphs_advanced: the blocks of the paragraphs
\* that have text
RECURSIVE _process_paragraphs_advanced(_)
_process_paragraphs_advanced(paragraphs) ==
    IF paragraphs = <<>> THEN <<>>
    ELSE IF Strip(Head(paragraphs).text) = <<>>
    THEN _process_paragraphs_advanced(Tail(paragraphs))
    ELSE <<_convert_paragraph_advanced(Head(paragraphs))>>
             \o _process_paragraphs_advanced(Tail(paragraphs))

MaxListRuns == 4      \* runs of a rendered paragraph's text

ListTexts ==
    SeqsUpTo([ch : {"U+2022", "1", "a", "i", ".", ")", " "}, n : {1}]
                 \cup [ch : {"i"}, n : {2}],
             MaxListRuns)

\* documents of one paragraph
RenderDocs ==
    {Document(<<>>, << <<[text |-> t, style |-> n]>>, <<>> >>) :
        t \in ListTexts, n \in {"Normal", "Heading 1"}}

RenderInit ==
    /\ text = <<>>
    /\ result = <<>>
    /\ NewFormatter
    /\ template_doc = NoDocument
    /\ output = "none"
    /\ lru_cache = <<>>
    /\ alive = {"f1"}
    /\ AppStart

\* convert_document on a document that loads: its paragraphs rendered
Render ==
    /\ pc = "start"
    /\ \E doc \in RenderDocs :
         /\ target_in' = doc
         /\ result' = _process_paragraphs_advanced(doc.paragraphs)
    /\ pc' = "rendered"
    /\ UNCHANGED <<app_vars, text, template_styles, style_content_map, content_style_cache,
                   target_doc, error, calls, run_vars, lru_cache>>

SpecRender == RenderInit /\ [][Render]_vars

\* ================================================ LaTeXConverter: tables
\* a table is the sequence of its rows, a row the sequence of its cells, a
\* cell the text of its paragraph, a sequence of characters; a line of the
\* output is a command or the characters of a row

Line(kind, line) == [kind |-> kind, line |-> line]

\* max(len(row.cells) for row in table.rows)
max_cols(table) ==
    CHOOSE m \in {Len(table[i]) : i \in 1..Len(table)} :
        \A i \in 1..Len(table) : Len(table[i]) <= m

\* the texts a cell of the tables has
TableCells == {<<" ">>, <<"a">>, <<"\\", "&">>}

\* _process_runs_advanced on the one run of a paragraph without formatting:
\* its text escaped
_process_runs_advanced == [t \in TableCells |-> _escape_latex_chars(t)]

\* lines 539-547: the paragraph of the cell, escaped, unless strip() leaves
\* nothing of its text
CellText(cell) ==
    IF \A i \in 1..Len(cell) : cell[i] \in Whitespace THEN <<>>
    ELSE _process_runs_advanced[cell]

\* the cells of a row without the padding of lines 550-551
RowContentNoPad(row, cols) == [j \in 1..Len(row) |-> CellText(row[j])]

\* lines 536-551: row_content, the texts of the cells, padded with ''
RowContent(row, cols) ==
    [j \in 1..cols |-> IF j <= Len(row) THEN CellText(row[j]) ELSE <<>>]

\* ' & '.join(row_content)
RECURSIVE JoinCells(_)
JoinCells(cells) ==
    IF cells = <<>> THEN <<>>
    ELSE IF Len(cells) = 1 THEN cells[1]
    ELSE cells[1] \o <<" ", "&", " ">> \o JoinCells(Tail(cells))

\* lines 535-557: the lines of the rows from row i on, each the joined
\* cells and ' \\' (line 553), a \midrule after the first row when there are
\* more
RECURSIVE RowLines(_, _, _)
RowLines(table, cols, i) ==
    IF i > Len(table) THEN <<>>
    ELSE <<Line("row", JoinCells(RowContent(table[i], cols)) \o <<" ", "\\", "\\">>)>>
             \o (IF i = 1 /\ Len(table) > 1 THEN <<Line("midrule", <<>>)>> ELSE <<>>)
             \o RowLines(table, cols, i + 1)

\* LaTeXConverter._convert_table_advanced
_convert_table_advanced(table) ==
    IF table = <<>> THEN <<>>
    ELSE <<Line("begin table", <<>>),
           Line("centering", <<>>),
           Line("begin tabular", [j \in 1..max_cols(table) |-> "l"]),
           Line("toprule", <<>>)>>
         \o RowLines(table, max_cols(table), 1)
         \o <<Line("bottomrule", <<>>),
              Line("end tabular", <<>>),
              Line("end table", <<>>)>>

\* LaTeXConverter._process_tables_advanced: the lines of the tables, an
\* empty line after each table that has lines
RECURSIVE _process_tables_advanced(_)
_process_tables_advanced(tables) ==
    IF tables = <<>> THEN <<>>
    ELSE (IF _convert_table_advanced(Head(tables)) # <<>>
          THEN _convert_table_advanced(Head(tables)) \o <<Line("", <<>>)>>
          ELSE <<>>)
         \o _process_tables_advanced(Tail(tables))

MaxRows == 2      \* rows of a table
MaxCols == 2      \* cells of a row

\* a row of a loaded table has at least one cell
Tables == SeqsUpTo(SeqsUpTo(TableCells, MaxCols) \ {<<>>}, MaxRows)

\* convert_document on a document that loads: its tables rendered
RenderTables ==
    /\ pc = "start"
    /\ \E doc \in {[styles |-> <<>>, paragraphs |-> <<>>, cell_paragraphs |-> <<>>,
                    tables |-> <<tb>>] : tb \in Tables} :
         /\ target_in' = doc
         /\ result' = _process_tables_advanced(doc.tables)
    /\ pc' = "tables"
    /\ UNCHANGED <<app_vars, text, template_styles, style_content_map, content_style_cache,
                   target_doc, error, calls, run_vars, lru_cache>>

SpecTable == RenderInit /\ [][RenderTables]_vars

\* ========================================== app.py: the cleanup registry
\* the clock is in seconds and is seen to advance a sweep period at a time

delay == 60           \* register_for_cleanup(output_path, delay=60)
sleep == 10           \* time.sleep(10) of background_cleanup
MaxTicks == 7         \* sweep periods the clock runs for
MaxFiles == 2         \* output files registered

core_vars == <<text, result, formatter_vars, run_vars, lru_cache>>

\* the list comprehension of line 46 taken one period late: the items that
\* expire within the next period are in neither list
RemainingLater(registry, t) ==
    SelectSeq(registry, LAMBDA item : item.cleanup_time > t + sleep)

\* line 45: the items of the registry that have expired at time t
Expired(registry, t) ==
    SelectSeq(registry, LAMBDA item : item.cleanup_time <= t)

\* line 46: the items that stay in the registry
Remaining(registry, t) ==
    SelectSeq(registry, LAMBDA item : item.cleanup_time > t)

\* time passes
Tick ==
    /\ now < MaxTicks * sleep
    /\ now' = now + sleep
    /\ UNCHANGED <<core_vars, cleanup_registry, cleanup_lock, requests, files,
                   sweep_pc, current_time, expired_files, wake, registered,
                   deleted>>

\* a request thread has written an output file and calls
\* register_for_cleanup(output_path, delay=60)
RegisterCall(t) ==
    /\ requests[t].pc = "idle"
    /\ files < MaxFiles
    /\ files' = files + 1
    /\ requests' = [requests EXCEPT ![t] = [pc |-> "waiting", path |-> files + 1]]
    /\ UNCHANGED <<core_vars, cleanup_registry, cleanup_lock, now, sweep_pc,
                   current_time, expired_files, wake, registered, deleted>>

\* line 35: with cleanup_lock, entered
RegisterAcquire(t) ==
    /\ requests[t].pc = "waiting"
    /\ cleanup_lock = "free"
    /\ cleanup_lock' = t
    /\ requests' = [requests EXCEPT ![t].pc = "locked"]
    /\ UNCHANGED <<core_vars, cleanup_registry, now, files, sweep_pc,
                   current_time, expired_files, wake, registered, deleted>>

\* lines 36-39: the entry appended, the lock released
RegisterAppend(t) ==
    /\ requests[t].pc = "locked"
    /\ \E item \in {[path |-> requests[t].path, cleanup_time |-> now + delay]} :
         /\ cleanup_registry' = Append(cleanup_registry, item)
         /\ registered' = Append(registered, item)
    /\ cleanup_lock' = "free"
    /\ requests' = [requests EXCEPT ![t] = [pc |-> "idle", path |-> 0]]
    /\ UNCHANGED <<core_vars, now, files, sweep_pc, current_time, expired_files,
                   wake, deleted>>

\* line 43: the sleep is over, cleanup_expired_files reads the clock
SweepStart ==
    /\ sweep_pc = "sleeping"
    /\ now >= wake
    /\ current_time' = now
    /\ sweep_pc' = "timed"
    /\ UNCHANGED <<core_vars, cleanup_registry, cleanup_lock, now, requests,
                   files, expired_files, wake, registered, deleted>>

\* line 44: with cleanup_lock, entered
SweepAcquire ==
    /\ sweep_pc = "timed"
    /\ cleanup_lock = "free"
    /\ cleanup_lock' = "sweeper"
    /\ sweep_pc' = "locked"
    /\ UNCHANGED <<core_vars, cleanup_registry, now, requests, files,
                   current_time, expired_files, wake, registered, deleted>>

\* lines 45-46: the registry split, the lock released
SweepSplit ==
    /\ sweep_pc = "locked"
    /\ expired_files' = Expired(cleanup_registry, current_time)
    /\ cleanup_registry' = Remaining(cleanup_registry, current_time)
    /\ cleanup_lock' = "free"
    /\ sweep_pc' = "deleting"
    /\ UNCHANGED <<core_vars, now, requests, files, current_time, wake,
                   registered, deleted>>

\* lines 48-53: the next expired item handed to os.unlink
SweepDelete ==
    /\ sweep_pc = "deleting"
    /\ expired_files # <<>>
    /\ deleted' = Append(deleted, [item |-> Head(expired_files), at |-> current_time])
    /\ expired_files' = Tail(expired_files)
    /\ UNCHANGED <<core_vars, cleanup_registry, cleanup_lock, now, requests,
                   files, sweep_pc, current_time, wake, registered>>

\* line 69: cleanup_expired_files has returned, the thread sleeps
SweepSleep ==
    /\ sweep_pc = "deleting"
    /\ expired_files = <<>>
    /\ wake' = now + sleep
    /\ current_time' = 0
    /\ sweep_pc' = "sleeping"
    /\ UNCHANGED <<core_vars, cleanup_registry, cleanup_lock, now, requests,
                   files, expired_files, registered, deleted>>

background_cleanup == SweepStart \/ SweepAcquire \/ SweepSplit \/ SweepDelete \/ SweepSleep

CleanupNext ==
    \/ Tick
    \/ \E t \in RequestThreads :
          RegisterCall(t) \/ RegisterAcquire(t) \/ RegisterAppend(t)
    \/ background_cleanup

SpecCleanup == Init /\ [][CleanupNext]_vars

\* ========================================================== the classifier

QuotationMarks == StraightQuotes \cup CurlyQuotes

Classified == result # "pending"

\* the text as the rules see it
Stripped == Strip(text)

\* rule 2 applies: fully upper-case and shorter than 50 characters
TitleShape == IsUpper(Stripped) /\ TextLen(Stripped) < 50

\* the text starts with one or more digits followed by a character of closers
NumberedPrefix(t, closers) ==
    \E k \in 1..(Len(t) - 1) :
        /\ \A i \in 1..k : t[i].ch \in Digits
        /\ t[k + 1].ch \in closers

\* a capital letter A-Z followed by no '.', '!' or '?' up to the end
CapitalNoSentenceEnd(t) ==
    /\ t[1].ch \in AsciiUpper
    /\ ~ \E i \in 1..Len(t) : t[i].ch \in SentenceEnd

\* C1: classify is total: for every input text (empty, whitespace-only,
\* single-character, very long) the call returns one of the five categories
\* heading, title, list_item, quote, body and never raises.
C1_ClassifyTotal ==
    Classified => result \in {"heading", "title", "list_item", "quote", "body"}

\* a whitespace-only text was classified
C1_Witness ==
    /\ text # <<>>
    /\ Stripped = <<>>
    /\ result = "body"

\* C2: rule 2 precedes rule 3: a text that is fully upper-case, shorter than
\* 50 characters after stripping, and starts with a quotation mark is
\* classified title, never quote.
C2_TitleBeforeQuote ==
    (Classified /\ Stripped # <<>> /\ TitleShape
        /\ Stripped[1].ch \in QuotationMarks)
    => result = "title"

\* '"HELLO"' was classified title
C2_Witness ==
    /\ text = << [ch |-> "\"", n |-> 1], [ch |-> "A", n |-> 1], [ch |-> "\"", n |-> 1] >>
    /\ result = "title"

\* C3: rule 3: a non-empty text not caught by the title rule whose first
\* character is a quotation mark (straight double, straight single,
\* typographic single or double) is classified quote.
C3_QuoteRule ==
    (Classified /\ Stripped # <<>> /\ ~ TitleShape
        /\ Stripped[1].ch \in QuotationMarks)
    => result = "quote"

\* C4: rules 4, 5, 6 in this order: a text not caught by rules 1-3 is heading
\* if it is shorter than 100 characters and starts with digits then '.' or
\* wholly matches capital-letter-then-no-'.!?'; otherwise list_item if it
\* starts with a bullet glyph or with digits then '.' or ')'; otherwise body.
C4_HeadingListBody ==
    (Classified /\ Stripped # <<>> /\ ~ TitleShape
        /\ Stripped[1].ch \notin QuotationMarks)
    => result =
         IF /\ TextLen(Stripped) < 100
            /\ \/ NumberedPrefix(Stripped, {"."})
               \/ CapitalNoSentenceEnd(Stripped)
         THEN "heading"
         ELSE IF \/ Stripped[1].ch \in BulletGlyphs
                 \/ NumberedPrefix(Stripped, {".", ")"})
         THEN "list_item"
         ELSE "body"

\* '1. introduction' (a numbered prefix 'N.' under 100 characters) was
\* classified heading, not list_item
C4_Witness ==
    /\ text = << [ch |-> "1", n |-> 1], [ch |-> ".", n |-> 1], [ch |-> "a", n |-> 1] >>
    /\ result = "heading"

\* ============================================================ the selector

\* apply_styles_to_target ran, to its end or to an exception of the paragraph
\* pass: the selection cache and the target's styles are those of this run
Applied == pc = "applied" \/ (pc = "raised" /\ error = "ValueError")

Categories == {"heading", "title", "list_item", "quote", "body"}

\* C5: selector coverage on a fresh formatter: after _prepare_style_mapping
\* the cache has an entry for all five categories whenever the extracted view
\* is non-empty, every entry names a style of the view, and with an empty
\* view the cache has no entry and no error is raised.
C5_SelectorCoverage ==
    Applied =>
        IF template_styles # <<>>
        THEN /\ DOMAIN content_style_cache = Categories
             /\ \A c \in Categories : content_style_cache[c] \in Names(template_styles)
        ELSE /\ DOMAIN content_style_cache = {}
             /\ error = "none"

\* a view of the single unused style Heading 1: list_item is covered by the
\* arbitrary fallback
C5_Witness ==
    /\ Applied
    /\ Names(template_styles) = {"Heading 1"}
    /\ template_styles[1].primary_content_type = "unset"
    /\ content_style_cache["list_item"] = "Heading 1"

\* C6: the selection cache is a function of the view alone: after any
\* sequence of extract/apply calls on one formatter, the cache an apply call
\* leaves is the one a fresh formatter computes for the same view.
C6_CacheDeterministic ==
    Applied => content_style_cache = _prepare_style_mapping(template_styles, <<>>)

\* ============================================================= the applier

\* apply_styles_to_target was called and left, by return or by exception
Returned == pc \in {"applied", "raised"}

Reserved ==
    {"Normal", "Heading 1", "Heading 2", "Heading 3", "Heading 4", "Heading 5",
     "Heading 6", "Title", "Subtitle", "Header", "Footer"}

\* the paragraphs of the target, body then table cells, before and after
ParasIn == AllParagraphs(target_in)
ParasOut == AllParagraphs(target_doc)

StyleOf(doc, name) == doc.styles[IndexOf(doc.styles, name)]

\* paragraph i is eligible and its category has the cache entry Selected(i)
Selects(i) ==
    /\ Strip(ParasIn[i].text) # <<>>
    /\ _categorize_content_fast(Strip(ParasIn[i].text)) \in DOMAIN content_style_cache
Selected(i) == content_style_cache[_categorize_content_fast(Strip(ParasIn[i].text))]

\* C7: content reassignment: after apply every paragraph of the body and of
\* the table cells with non-empty stripped text has the style
\* cache[classify(text)] when that entry exists and names a style of the
\* target registry; otherwise, and when its text is blank, it keeps its
\* prior style.
C7_Reassigned ==
    Returned =>
        \A i \in 1..Len(ParasIn) :
            ParasOut[i].style =
                IF Selects(i) /\ HasStyle(target_doc.styles, Selected(i))
                THEN Selected(i)
                ELSE ParasIn[i].style

\* C8: style materialization: for every StyleRecord of the view, after apply
\* (i) a style of that name that existed in the target is the same style,
\* updated in place, (ii) if none existed and the name is not reserved a new
\* style of the record's kind exists under the name, (iii) if none existed
\* and the name is reserved the target still has none; and no style outside
\* the view is created.
C8_Materialized ==
    Returned =>
        /\ \A i \in 1..Len(template_styles) :
             LET rec == template_styles[i]
             IN  IF HasStyle(target_in.styles, rec.name)
                 THEN /\ HasStyle(target_doc.styles, rec.name)
                      /\ IndexOf(target_doc.styles, rec.name) = IndexOf(target_in.styles, rec.name)
                      /\ StyleOf(target_doc, rec.name).origin = "target"
                      /\ StyleOf(target_doc, rec.name).type = StyleOf(target_in, rec.name).type
                 ELSE IF rec.name \notin Reserved
                 THEN /\ HasStyle(target_doc.styles, rec.name)
                      /\ StyleOf(target_doc, rec.name).origin = "created"
                      /\ StyleOf(target_doc, rec.name).type = rec.type
                 ELSE ~ HasStyle(target_doc.styles, rec.name)
        /\ Names(target_doc.styles) \subseteq Names(target_in.styles) \cup Names(template_styles)
        /\ DistinctNames(target_doc.styles)

\* the view holds Heading 1 (reserved), Quote and Strong, the target held
\* none of them: Quote and Strong were created, Heading 1 was not
C8_Witness ==
    /\ Returned
    /\ Names(template_styles) = {"Heading 1", "Quote", "Strong"}
    /\ Names(target_in.styles) = {"Normal"}
    /\ Names(target_doc.styles) = {"Normal", "Quote", "Strong"}
    /\ StyleOf(target_doc, "Strong").type = "character"
    /\ StyleOf(target_doc, "Quote").type = "paragraph"

\* every well-formed attribute of data is set on obj
AllApplied(obj, data) ==
    \A a \in DOMAIN data : data[a] # "malformed" => obj[a] = data[a]

\* C9: best-effort update within one style: when setting one attribute of a
\* style raises, every other attribute of that StyleRecord (before and after
\* the failing one, font and layout) is still applied to the target style.
C9_BestEffort ==
    Returned =>
        \A i \in 1..Len(template_styles) :
            LET rec == template_styles[i]
            IN  HasStyle(target_doc.styles, rec.name) =>
                  /\ AllApplied(StyleOf(target_doc, rec.name).font, rec.font)
                  /\ StyleOf(target_doc, rec.name).type = "paragraph" =>
                       AllApplied(StyleOf(target_doc, rec.name).paragraph_format,
                                  rec.paragraph)

\* a setter raises while the record is applied
RecordFails(rec) ==
    \/ \E a \in DOMAIN rec.font : rec.font[a] = "malformed"
    \/ \E a \in DOMAIN rec.paragraph : rec.paragraph[a] = "malformed"

\* the record is updated or created in this run
Handled(rec) == HasStyle(target_in.styles, rec.name) \/ rec.name \notin Reserved

\* updating or creating the style of record i failed
StyleFailure(i) == Handled(template_styles[i]) /\ RecordFails(template_styles[i])

\* record j went through materialization: its style is there, with every
\* attribute of the record when none of them is malformed
Materialized(j) ==
    LET rec == template_styles[j]
    IN  Handled(rec) =>
          /\ HasStyle(target_doc.styles, rec.name)
          /\ ~ RecordFails(rec) =>
               /\ AllApplied(StyleOf(target_doc, rec.name).font, rec.font)
               /\ StyleOf(target_doc, rec.name).type = "paragraph" =>
                    AllApplied(StyleOf(target_doc, rec.name).paragraph_format,
                               rec.paragraph)

\* the style selected for paragraph i is missing from the target
MissingName(i) == Selects(i) /\ ~ HasStyle(target_doc.styles, Selected(i))

\* the style selected for paragraph i is in the target, but is no paragraph
\* style: the container refuses it
KindRefused(i) ==
    /\ Selects(i)
    /\ HasStyle(target_doc.styles, Selected(i))
    /\ StyleOf(target_doc, Selected(i)).type # "paragraph"

Reapplied == calls = 1

\* C11: idempotence of apply: a second run of the applier with the same
\* template on the output of the first run changes no attribute of any
\* style of the target registry, creates no style, and leaves every
\* paragraph with the style the first run gave it.
C11_Idempotent ==
    Reapplied =>
        /\ Len(target_doc.styles) = Len(target_in.styles)
        /\ \A i \in 1..Len(target_in.styles) :
             /\ target_doc.styles[i].name = target_in.styles[i].name
             /\ target_doc.styles[i].font = target_in.styles[i].font
             /\ target_doc.styles[i].paragraph_format = target_in.styles[i].paragraph_format
        /\ \A i \in 1..Len(ParasIn) : ParasOut[i].style = ParasIn[i].style
        /\ Len(ParasOut) = Len(ParasIn)

\* the first run created a style, updated another with the template's
\* values and restyled a paragraph; the second run returned
C11_Witness ==
    /\ Reapplied
    /\ pc = "applied"
    /\ \E i \in 1..Len(target_in.styles) : target_in.styles[i].origin = "created"
    /\ \E i \in 1..Len(target_in.styles) :
         /\ target_in.styles[i].origin = "target"
         /\ target_in.styles[i].font["name"] = "tpl"
    /\ \E i \in 1..Len(ParasIn) : ParasIn[i].style # "Normal"

\* ============================================================ load errors

\* C12: malformed input is fatal and leaves no partial output: when the
\* template or the target of apply_formatting, or the source of
\* convert_to_latex, fails to load, the load error reaches the caller and no
\* output path was generated or written; an output file exists only after
\* the loads and the whole processing succeeded.
C12_LoadErrorNoOutput ==
    /\ error = "LoadError" => (pc = "raised" /\ output = "none")
    /\ pc = "raised" => output = "none"
    /\ output # "none" => (output = "written" /\ pc \in {"saved", "converted"}
                             /\ error = "none")

\* the template was extracted, then the target failed to load
C12_Witness ==
    /\ error = "LoadError"
    /\ template_styles # <<>>
    /\ output = "none"

\* ================================================================ escaping

\* the table entry of the character c, c itself if the table has none
EntryOf(c) ==
    IF \E k \in 1..Len(escape_chars) : escape_chars[k].char = <<c>>
    THEN escape_chars[CHOOSE k \in 1..Len(escape_chars) : escape_chars[k].char = <<c>>].escaped
    ELSE <<c>>

\* every character of s replaced by its entry, in one pass over s
RECURSIVE SinglePass(_)
SinglePass(s) == IF s = <<>> THEN <<>> ELSE EntryOf(Head(s)) \o SinglePass(Tail(s))

\* C13: escaping is a single pass over the raw text with no double-escaping:
\* every special character of the raw text is replaced exactly once by its
\* table entry, and no character a replacement introduced (the braces of the
\* backslash or caret replacement) is escaped again.
C13_SinglePass ==
    pc = "escaped" => result = SinglePass(text)

\* ========================================================== parallel runs

\* C14: independent runs executing in parallel share no mutable state: no
\* step of one formatter's run (a classification with its cache insertion
\* or eviction, the destruction of the formatter) modifies state another
\* run's formatter reads or writes; each run's classification cache is its
\* own.  Here: the destruction of a formatter leaves the cache entries of
\* every other formatter as they are, and a classification changes the
\* entries of one formatter only.
C14_NoSharedState ==
    [][/\ \A f \in Formatters :
            (f \in alive /\ f \notin alive') =>
                \A g \in Formatters \ {f} : EntriesOf(g)' = EntriesOf(g)
       /\ alive' = alive =>
            \E f \in Formatters :
                \A g \in Formatters \ {f} : EntriesOf(g)' = EntriesOf(g)]_vars

\* ===================================================== the selector's steps

\* the styles of the view whose primary content category is c, by position
WithPrimary(c) == {i \in 1..Len(template_styles) : template_styles[i].primary_content_type = c}

\* the styles of the view step 1 groups under c: those whose primary
\* category is c and, for body, those that have none
GroupOf(c) == WithPrimary(c) \cup (IF c = "body" THEN WithPrimary("unset") ELSE {})

Earliest(S) == CHOOSE i \in S : \A j \in S : i <= j

\* C15 as claimed: for each category c with at least one style of the view
\* whose primary category is c, the cache entry for c is the first such style
\* in extraction order; a style whose primary category is unset is in no
\* group and is not chosen by step 1, in particular not for body.
C15_StepOne ==
    Applied =>
        \A c \in Categories :
            WithPrimary(c) # {} =>
                content_style_cache[c] = template_styles[Earliest(WithPrimary(c))].name

\* C15 amended: for each category c whose group has at least one style, the
\* cache entry for c is the first style of the group in extraction order,
\* where a style whose primary category is unset belongs to the group of
\* body.
C15_StepOneDefaultBody ==
    Applied =>
        \A c \in Categories :
            GroupOf(c) # {} =>
                content_style_cache[c] = template_styles[Earliest(GroupOf(c))].name

\* an unused style stands before a style used for body text: body is the
\* unused one
C15_Witness ==
    /\ Applied
    /\ Len(template_styles) >= 2
    /\ template_styles[1].primary_content_type = "unset"
    /\ template_styles[2].primary_content_type = "body"
    /\ content_style_cache["body"] = template_styles[1].name

\* the lower-cased name of the style contains the pattern
NameContains(name, pattern) ==
    \/ Lower(name) = pattern
    \/ pattern = "heading" /\ Lower(name) = "heading 1"

\* the patterns of the name-based fallback for the category c, in order
PatternsOf(c) == <<c, "heading", "title", "normal">>

\* the patterns of c, by position, that some style name of the view contains
Matching(c) ==
    {k \in 1..4 : \E i \in 1..Len(template_styles) :
                     NameContains(template_styles[i].name, PatternsOf(c)[k])}

\* C16: selector step 2: for every category step 1 did not resolve, the
\* patterns are tried in the order category name, 'heading', 'title',
\* 'normal', and the first pattern contained in some lower-cased style name
\* resolves the category to a style whose name contains it.
C16_NameFallback ==
    Applied =>
        \A c \in Categories :
            (GroupOf(c) = {} /\ Matching(c) # {}) =>
                NameContains(content_style_cache[c], PatternsOf(c)[Earliest(Matching(c))])

\* ============================================================ the extractor

Extracted == pc = "extracted"

\* the walk of the template: body paragraphs, then those of the table cells
Walk == AllParagraphs(template_doc)

\* the paragraph has a stripped text of at least 3 characters
LongEnough(p) == TextLen(Strip(p.text)) >= 3

\* the categories of the paragraphs of paras that are long enough and use
\* the style name, in the order of paras
RECURSIVE SamplesIn(_, _)
SamplesIn(paras, name) ==
    IF paras = <<>> THEN <<>>
    ELSE IF LongEnough(Head(paras)) /\ Head(paras).style = name
    THEN <<_categorize_content_fast(Head(paras).text)>> \o SamplesIn(Tail(paras), name)
    ELSE SamplesIn(Tail(paras), name)

FirstAt(seq, c) == Earliest({i \in 1..Len(seq) : seq[i] = c})

\* c has the highest count in seq and, among those that have, the earliest
\* first sample
LeadsIn(seq, c) ==
    /\ c \in Range(seq)
    /\ \A d \in Range(seq) \ {c} :
         \/ Count(seq, d) < Count(seq, c)
         \/ Count(seq, d) = Count(seq, c) /\ FirstAt(seq, c) < FirstAt(seq, d)

\* C17: extractor primary category: for each style with at least one usage
\* sample the primary category is the one with the highest sample count
\* and, among several with the highest count, the one whose first sample
\* came earliest in the traversal (body paragraphs, then table cells); a
\* style with no usage sample keeps it unset.
C17_PrimaryCategory ==
    Extracted =>
        \A i \in 1..Len(template_styles) :
            LET samples == SamplesIn(Walk, template_styles[i].name)
            IN  IF samples = <<>>
                THEN template_styles[i].primary_content_type = "unset"
                ELSE LeadsIn(samples, template_styles[i].primary_content_type)

\* two categories tie in a style, the later one in the body and the earlier
\* one too: the earlier one is primary; and a style whose later category has
\* the majority
C17_Witness ==
    /\ Extracted
    /\ \E i \in 1..Len(template_styles) :
         LET samples == SamplesIn(Walk, template_styles[i].name)
         IN  /\ Len(samples) = 3
             /\ samples[1] # samples[2]
             /\ samples[2] = samples[3]
             /\ template_styles[i].primary_content_type = samples[2]
             /\ template_doc.cell_paragraphs # <<>>

\* the style of the registry has font or layout data the extractor keeps
HasData(st) ==
    \/ \E a \in DOMAIN st.font : st.font[a] # "None"
    \/ st.type = "paragraph" /\ \E a \in DOMAIN st.paragraph_format : st.paragraph_format[a] # "None"

\* the samples recorded for the style name
Recorded(name) ==
    IF name \in Names(style_content_map)
    THEN style_content_map[IndexOf(style_content_map, name)].samples
    ELSE <<>>

\* C18 as claimed: every style of the source registry gets a record in the
\* view; every paragraph of the body or of a table cell whose stripped text
\* has at least 3 characters contributes exactly one usage sample (its style
\* -> classify(text)), so every style used by such a paragraph has its
\* primary category populated; paragraphs with empty or shorter text
\* contribute none.
C18_Sampling ==
    Extracted =>
        /\ \A i \in 1..Len(template_doc.styles) :
             template_doc.styles[i].name \in Names(template_styles)
        /\ \A j \in 1..Len(Walk) :
             Recorded(Walk[j].style) = SamplesIn(Walk, Walk[j].style)
        /\ \A j \in 1..Len(Walk) :
             LongEnough(Walk[j]) =>
                 /\ Walk[j].style \in Names(template_styles)
                 /\ template_styles[IndexOf(template_styles, Walk[j].style)]
                        .primary_content_type # "unset"

\* C18 amended: a style of the source registry gets a record in the view if
\* and only if it is of paragraph or character kind and has at least one
\* set font attribute or, being of paragraph kind, layout attribute; every
\* paragraph of the body or of a table cell whose stripped text has at least
\* 3 characters and whose style has a record contributes exactly one usage
\* sample, so every style of the view used by such a paragraph has its
\* primary category populated; all other paragraphs contribute none.
C18_SamplingOfRecords ==
    Extracted =>
        /\ \A i \in 1..Len(template_doc.styles) :
             LET st == template_doc.styles[i]
             IN  st.name \in Names(template_styles) <=>
                     (st.type \in {"paragraph", "character"} /\ HasData(st))
        /\ Names(template_styles) \subseteq Names(template_doc.styles)
        /\ Names(style_content_map) \subseteq Names(template_styles)
        /\ \A i \in 1..Len(template_styles) :
             /\ Recorded(template_styles[i].name) = SamplesIn(Walk, template_styles[i].name)
             /\ SamplesIn(Walk, template_styles[i].name) # <<>> =>
                    template_styles[i].primary_content_type # "unset"

\* a style with data sampled from a table cell, next to a paragraph too
\* short to count and a paragraph in a style without data
C18_Witness ==
    /\ Extracted
    /\ template_doc.cell_paragraphs # <<>>
    /\ LongEnough(template_doc.cell_paragraphs[1])
    /\ Recorded(template_doc.cell_paragraphs[1].style) # <<>>
    /\ \E j \in 1..Len(Walk) : ~ LongEnough(Walk[j])
    /\ \E j \in 1..Len(Walk) : LongEnough(Walk[j]) /\ Walk[j].style \notin Names(template_styles)

\* ================================================= the update's frame

\* the attribute a of obj after an update with the values data, old its
\* value before: overwritten when data has a (well-formed) value for it
AsUpdated(obj, old, data, a) ==
    obj[a] = IF a \in DOMAIN data /\ data[a] # "malformed" THEN data[a] ELSE old[a]

\* C19: frame condition of a style update: updating a target style from a
\* StyleRecord overwrites exactly the font and layout attributes present in
\* the record and leaves every attribute absent from the record at its
\* previous target value; layout attributes are only touched for records of
\* paragraph kind.
C19_UpdateFrame ==
    Returned =>
        \A i \in 1..Len(template_styles) :
            LET rec == template_styles[i]
            IN  HasStyle(target_in.styles, rec.name) =>
                  LET old == StyleOf(target_in, rec.name)
                      new == StyleOf(target_doc, rec.name)
                  IN  /\ \A a \in DOMAIN old.font :
                           AsUpdated(new.font, old.font, rec.font, a)
                      /\ \A a \in DOMAIN old.paragraph_format :
                           IF rec.type = "paragraph"
                           THEN AsUpdated(new.paragraph_format, old.paragraph_format,
                                          rec.paragraph, a)
                           ELSE new.paragraph_format[a] = old.paragraph_format[a]

\* ================================================================== lists

\* the rendered paragraph and its stripped text
Rendered == pc = "rendered" /\ Strip(target_in.paragraphs[1].text) # <<>>
RenderedText == Strip(target_in.paragraphs[1].text)

ListBlocks == {"itemize", "enumerate", "alph", "roman"}

\* the block type of the enumerator the text starts with: a roman numeral
\* (of one or more letters) is roman, any other letter alphabetic
BlockOfEnumerator(t) ==
    IF t[1].ch \in BulletGlyphs THEN "itemize"
    ELSE IF t[1].ch \in Digits THEN "enumerate"
    ELSE IF t[1].ch \in RomanLetters THEN "roman"
    ELSE "alph"

\* C20: renderer list handling: for a paragraph whose style is not a
\* structural style the renderer emits a single-item list block if and only
\* if the text matches the classifier's rule-5 list shape, and the block is
\* the one of the enumerator that matched: bullet glyph -> bulleted, digits
\* -> numbered, letter -> alphabetic, roman numeral (also of a single
\* letter, 'i.' or 'v)') -> roman.
C20_ListBlocks ==
    (Rendered /\ target_in.paragraphs[1].style \notin style_mappings) =>
        /\ Len(result) = 1
        /\ result[1] \in ListBlocks <=> LIST_PATTERN(RenderedText)
        /\ result[1] \in ListBlocks => result[1] = BlockOfEnumerator(RenderedText)

\* ================================================================= tables

\* the table rendered, with at least one row
TableRendered == pc = "tables" /\ target_in.tables[1] # <<>>
TheTable == target_in.tables[1]

\* the kinds of the lines from the top rule to the bottom rule
RuleKinds ==
    LET body == SelectSeq(result,
                    LAMBDA l : l.kind \in {"toprule", "row", "midrule", "bottomrule"})
    IN  [k \in 1..Len(body) |-> body[k].kind]

\* the lines of the rows, in the order of the output
RowsOut == SelectSeq(result, LAMBDA l : l.kind = "row")

\* the most cells any row of the table has
MostCells ==
    CHOOSE m \in 0..MaxCols + 1 :
        /\ \A i \in 1..Len(TheTable) : Len(TheTable[i]) <= m
        /\ \E i \in 1..Len(TheTable) : Len(TheTable[i]) = m

\* the cells of an emitted row: the text between the separators, a
\* separator being an & that no backslash escapes
RECURSIVE SplitCells(_, _, _)
SplitCells(line, i, cur) ==
    IF i > Len(line) THEN <<cur>>
    ELSE IF line[i] = "&" /\ (i = 1 \/ line[i - 1] # "\\")
    THEN <<SubSeq(cur, 1, Len(cur) - 1)>> \o SplitCells(line, i + 2, <<>>)
    ELSE SplitCells(line, i + 1, cur \o <<line[i]>>)

\* the cells of the emitted row k, the closing ' \\' taken off
CellsOut(k) ==
    SplitCells(SubSeq(RowsOut[k].line, 1, Len(RowsOut[k].line) - 3), 1, <<>>)

\* C21: table rendering: for a table with at least one row the output is,
\* in order, top rule, first row, a mid rule if and only if the table has
\* more than one row, the remaining rows in order, bottom rule; every
\* emitted row has as many cells as the longest row of the table, the cells
\* of its row first and empty cells on the right of a shorter row.
C21_TableRendering ==
    TableRendered =>
        /\ RuleKinds =
               <<"toprule", "row">>
               \o (IF Len(TheTable) > 1 THEN <<"midrule">> ELSE <<>>)
               \o [k \in 1..Len(TheTable) - 1 |-> "row"]
               \o <<"bottomrule">>
        /\ \E l \in Range(result) :
             l.kind = "begin tabular" /\ Len(l.line) = MostCells
        /\ Len(RowsOut) = Len(TheTable)
        /\ \A k \in 1..Len(RowsOut) :
             /\ Len(CellsOut(k)) = MostCells
             /\ \A j \in 1..Len(CellsOut(k)) :
                  CellsOut(k)[j] = IF j <= Len(TheTable[k])
                                   THEN CellText(TheTable[k][j]) ELSE <<>>

\* a table of two rows, the second shorter than the first, one cell with an
\* ampersand in its text
C21_Witness ==
    /\ TableRendered
    /\ Len(TheTable) = 2
    /\ Len(TheTable[2]) < Len(TheTable[1])
    /\ \E j \in 1..Len(TheTable[1]) : TheTable[1][j] = <<"\\", "&">>
    /\ Len(result) = 11

\* ========================================================== instance reuse

\* C22: under instance reuse, after any sequence of
\* extract_styles_from_template calls on one DocumentFormatter every style
\* name held in style_content_map is a key of the current template_styles
\* and its samples are those of the most recent template alone, so that
\* computing the primary content types never fails on a missing style.
C22_ReuseInvariant ==
    calls > 0 =>
        /\ error # "KeyError"
        /\ \A i \in 1..Len(style_content_map) :
             style_content_map[i].name \in Names(template_styles)
        /\ style_content_map =
               CollectUsage(<<>>, AllParagraphs(template_doc),
                            ExtractedStyles(template_doc))

\* ======================================================= cleanup registry

\* how many times the entry e is in the list
Times(list, e) == Cardinality({i \in 1..Len(list) : list[i] = e})

DeletedItems == [i \in 1..Len(deleted) |-> deleted[i].item]

\* C23: cleanup-registry safety under interleaving: for any interleaving of
\* register_for_cleanup calls of the request threads with the sweeps of the
\* background thread no registered path is lost: a registered entry is in
\* cleanup_registry until a sweep removes it, a sweep removes an entry only
\* if its cleanup_time is <= the sweep's current time, and an entry a sweep
\* removed is handed to deletion exactly once (it waits in the sweep's list
\* until then).
C23_NoEntryLost ==
    /\ \A i \in 1..Len(registered) :
         Times(cleanup_registry, registered[i])
           + Times(expired_files, registered[i])
           + Times(DeletedItems, registered[i]) = 1
    /\ \A i \in 1..Len(expired_files) :
         expired_files[i].cleanup_time <= current_time
    /\ \A i \in 1..Len(deleted) :
         deleted[i].item.cleanup_time <= deleted[i].at
    /\ sweep_pc = "sleeping" =>
         \A i \in 1..Len(registered) :
             Times(cleanup_registry, registered[i]) = 0
                 => Times(DeletedItems, registered[i]) = 1

\* a sweep has deleted one entry and the registry holds another, registered
\* no earlier than that sweep read the clock
C23_Witness ==
    /\ sweep_pc = "sleeping"
    /\ Len(deleted) = 1
    /\ Len(cleanup_registry) = 1
    /\ cleanup_registry[1].cleanup_time - delay >= deleted[1].at

====
